---- MODULE Spec2Model ----
(***************************************************************************)
(* A model of ts_trove's univariate EDA engine (UnivariateEDA) and of the  *)
(* report assembler built on it (UnivaritateEDAReport).                    *)
(*                                                                         *)
(* Time.  A timestamp is an integer number of hours counted from a Monday  *)
(* 00:00 that is day 8 of a month of 31 days (2024-01-08).  The indexes    *)
(* of the model are either short and within days 8..27 of that month, or   *)
(* hourly without a gap, so the calendar rules of pandas' frequency        *)
(* inference (annual, quarterly, monthly, week-of-month) never match and   *)
(* are left out.  No two consecutive timestamps of the model are 17 or 65  *)
(* hours apart, so the business-hour rule never matches either.  Frequency *)
(* aliases are those of pandas 2.2 and later, which the lowercase 'h' of   *)
(* the report's table presumes.                                            *)
(*                                                                         *)
(* Values.  A series holds integers (a clean series: no NaN).  A real      *)
(* number the code computes is kept as an exact fraction, and NaN is a     *)
(* value of its own.                                                       *)
(***************************************************************************)
EXTENDS Integers, Sequences, FiniteSets, TLC

VARIABLES
    ts,       \* UnivariateEDA.ts: the series the engine holds
    ts0,      \* the series handed to UnivariateEDA.__init__ (history)
    call,     \* the method in progress, with its arguments, or NoCall
    out,      \* what the call in progress is about to return or raise
    derived,  \* the local series of that call (ts_to_plot / ts_to_use)
    ndiff,    \* number of calls that overwrote self.ts so far (history)
    report,   \* the UnivaritateEDAReport built on the engine, if any
    model     \* an instance of a model contract (detector, classifier or
              \* forecaster) and the composite call in progress on it, if any

vars == <<ts, ts0, call, out, derived, ndiff, report, model>>

-----------------------------------------------------------------------------
(* Bounds of the model *)

MaxLen == 5        \* longest series handed to the engine (engine specification)
MaxIdxLen == 5     \* longest index handed to the engine (index specification)
MaxSteps == 2      \* longest horizon asked of a forecaster (contract specification)
MaxHistDiff == 2   \* most calls of plot_distribution_histogram(differenced=True)

-----------------------------------------------------------------------------
(* Small helpers *)

None == "None"
NoSeries == [kind |-> "none", name |-> "None", index |-> <<>>, values |-> <<>>]
NoReport == [built |-> FALSE]
NoModel == [kind |-> "None"]

Min2(a, b) == IF a <= b THEN a ELSE b
Max2(a, b) == IF a >= b THEN a ELSE b
MinOf(S) == CHOOSE x \in S : \A y \in S : x <= y
MaxOf(S) == CHOOSE x \in S : \A y \in S : x >= y
Range(s) == {s[i] : i \in 1..Len(s)}

\* the members of S within lo..hi, in ascending order (by halving the range)
RECURSIVE SortedRange(_, _, _)
SortedRange(S, lo, hi) ==
    IF \A x \in S : x < lo \/ x > hi THEN <<>>
    ELSE IF lo = hi THEN <<lo>>
    ELSE LET mid == (lo + hi) \div 2
         IN  SortedRange(S, lo, mid) \o SortedRange(S, mid + 1, hi)

SortedSeq(S) == IF S = {} THEN <<>> ELSE SortedRange(S, MinOf(S), MaxOf(S))

RECURSIVE SumRange(_, _, _)
SumRange(f, lo, hi) ==
    IF lo > hi THEN 0
    ELSE IF lo = hi THEN f[lo]
    ELSE LET mid == (lo + hi) \div 2
         IN  SumRange(f, lo, mid) + SumRange(f, mid + 1, hi)

Sum(s) == SumRange(s, 1, Len(s))

\* the largest of f[lo], ..., f[hi] (lo <= hi), again by halving
RECURSIVE MaxRange(_, _, _)
MaxRange(f, lo, hi) ==
    IF lo = hi THEN f[lo]
    ELSE LET mid == (lo + hi) \div 2
             l == MaxRange(f, lo, mid)
             r == MaxRange(f, mid + 1, hi)
         IN  IF l >= r THEN l ELSE r

\* the smallest and the largest member of a sequence that is not empty
SeqMin(s) == -MaxRange([i \in 1..Len(s) |-> -s[i]], 1, Len(s))
SeqMax(s) == MaxRange(s, 1, Len(s))

-----------------------------------------------------------------------------
(* Series: pd.Series with its index, the dtype of the index and its name *)

Series(kind, name, index, values) ==
    [kind |-> kind, name |-> name, index |-> index, values |-> values]

IsDatetime(s) == s.kind = "datetime64"

\* hour 0 is a Monday 00:00; Timestamp.weekday() is 0 for Monday
Weekday(t) == (t \div 24) % 7

-----------------------------------------------------------------------------
(* pandas: pd.infer_freq(index) on a DatetimeIndex *)

Freq(count, base) == [count |-> count, base |-> base]

\* infer_freq returning None (no single frequency fits the index)
NoFreq == Freq(0, "None")

\* _maybe_add_count(base, count): the alias is base alone when the count is 1
IsAlias(f, alias) == f # NoFreq /\ f.count = 1 /\ f.base = alias

WeeklyAlias == <<"W-MON", "W-TUE", "W-WED", "W-THU", "W-FRI", "W-SAT", "W-SUN">>

Deltas(idx) == {idx[i + 1] - idx[i] : i \in 1..(Len(idx) - 1)}

IsMonotonic(idx) ==
    \/ \A i \in 1..(Len(idx) - 1) : idx[i] <= idx[i + 1]
    \/ \A i \in 1..(Len(idx) - 1) : idx[i] >= idx[i + 1]

IsUniqueIndex(idx) == Cardinality(Range(idx)) = Len(idx)

\* _FrequencyInferer.__init__ raises ValueError below three dates
InferFreqRaises(idx) == Len(idx) < 3

\* _FrequencyInferer._is_business_daily
IsBusinessDaily(idx) ==
    /\ \A d \in Deltas(idx) : d % 24 = 0
    /\ {d \div 24 : d \in Deltas(idx)} = {1, 3}
    /\ \A i \in 1..(Len(idx) - 1) :
          LET shift == (idx[i + 1] - idx[i]) \div 24
              wd == (Weekday(idx[1]) + ((idx[i + 1] - idx[1]) \div 24)) % 7
          IN  \/ wd = 0 /\ shift = 3
              \/ wd > 0 /\ wd <= 4 /\ shift = 1

\* _FrequencyInferer._get_daily_rule
DailyRule(idx, delta) ==
    LET days == delta \div 24
    IN  IF days % 7 = 0
        THEN Freq(days \div 7, WeeklyAlias[Weekday(idx[1]) + 1])
        ELSE Freq(days, "D")

\* _FrequencyInferer._infer_daily_rule (the calendar rules never match here)
InferDailyRule(idx) ==
    IF Cardinality(Deltas(idx)) = 1 THEN DailyRule(idx, MinOf(Deltas(idx)))
    ELSE IF IsBusinessDaily(idx) THEN Freq(1, "B")
    ELSE NoFreq

\* a frequency inference that drops the multiple of the base frequency
InferFreqNoCount(idx) ==
    IF ~IsMonotonic(idx) \/ ~IsUniqueIndex(idx) THEN NoFreq
    ELSE LET delta == MinOf(Deltas(idx))
         IN  IF delta # 0 /\ delta % 24 = 0
             THEN IF InferDailyRule(idx) = NoFreq THEN NoFreq
                  ELSE Freq(1, InferDailyRule(idx).base)
             ELSE IF Cardinality(Deltas(idx)) # 1 THEN NoFreq
             ELSE Freq(1, "h")

\* _FrequencyInferer.get_freq, for an index of at least three dates
InferFreq(idx) ==
    IF ~IsMonotonic(idx) \/ ~IsUniqueIndex(idx) THEN NoFreq
    ELSE LET delta == MinOf(Deltas(idx))
         IN  IF delta # 0 /\ delta % 24 = 0 THEN InferDailyRule(idx)
             ELSE IF Cardinality(Deltas(idx)) # 1 THEN NoFreq
             ELSE Freq(delta, "h")

-----------------------------------------------------------------------------
(* pandas: pd.date_range(start=, end=, freq=) and Index.difference *)

\* the length in hours of one step of a frequency
FreqHours(f) ==
    IF f.base = "h" THEN f.count
    ELSE IF f.base \in {"D", "B"} THEN 24 * f.count
    ELSE 168 * f.count

\* the first timestamp at or after start that lies on the frequency's anchor
RollForward(start, f) ==
    IF f.base \in Range(WeeklyAlias)
    THEN LET anchor == CHOOSE a \in 0..6 : WeeklyAlias[a + 1] = f.base
         IN  start + 24 * ((anchor - Weekday(start)) % 7)
    ELSE start

\* the timestamps first, first + step, ... up to end, for a frequency f
DateGrid(start, end, f) ==
    LET step == FreqHours(f)
        first == RollForward(start, f)
        grid == IF step <= 0 \/ first > end THEN {}
                ELSE {first + step * j : j \in 0..((end - first) \div step)}
    IN  IF f.base = "B" THEN {t \in grid : Weekday(t) <= 4} ELSE grid

\* date_range: "if freq is None and com.any_none(periods, start, end): freq = 'D'"
DateRange(start, end, freq) ==
    DateGrid(start, end, IF freq = NoFreq THEN Freq(1, "D") ELSE freq)

\* full_time_index.difference(index).tolist(): sorted, without duplicates
IndexDifference(full, idx) == SortedSeq(full \ Range(idx))

-----------------------------------------------------------------------------
(* Calls and their outcomes *)

Call(name, differenced, window, nlags, resample_to) ==
    [name |-> name, differenced |-> differenced, window |-> window,
     nlags |-> nlags, resample_to |-> resample_to]

Plain(name) == Call(name, FALSE, 0, 0, None)

\* the outcome of a call: what it returns or the exception it raises, and the
\* steps it went through (stages, each named as a call)
NoValue == [kind |-> "None"]

Ok(value, stages) ==
    [status |-> "ok", error |-> None, value |-> value, stages |-> stages]

Raised(error, stages) ==
    [status |-> "raised", error |-> error, value |-> NoValue, stages |-> stages]

\* no call is in progress: the engine is built and its caller is about to call
NoCall == Plain("None")
NoOut == Ok(NoValue, <<>>)
Idle == call = NoCall

\* generate has statements left to run: it has not raised, and has not written
InProgress ==
    call.name = "generate" /\ out.status = "ok" /\ out.value.kind = "generate"

\* the call in progress returns to its caller (or its exception leaves it): the
\* caller has the result, and the locals of the call are gone
Return ==
    /\ ~Idle /\ ~InProgress
    /\ call' = NoCall
    /\ out' = NoOut
    /\ derived' = NoSeries
    /\ UNCHANGED <<ts, ts0, ndiff, report, model>>

InvalidIndexType == "ValueError: DataFrame index must be a datetime type."
NeedThreeDates == "ValueError: Need at least 3 dates to infer frequency"
NonConvertibleIndex == "TypeError: cannot infer freq from a non-convertible index"

-----------------------------------------------------------------------------
(* UnivariateEDA.describe_time_index *)

IndexDescription(s) ==
    LET idx == s.index
        inferred_freq == InferFreq(idx)
        start_time == SeqMin(idx)
        end_time == SeqMax(idx)
        full_time_index == DateRange(start_time, end_time, inferred_freq)
        missing_timestamps == IndexDifference(full_time_index, idx)
    IN  [inferred_frequency |-> inferred_freq,
         start_time |-> start_time,
         end_time |-> end_time,
         n_missing_timestamps |-> Len(missing_timestamps),
         missing_timestamps |-> missing_timestamps]

\* the type check made after, not before, the frequency inference
DescribeTimeIndexLateCheck(s) ==
    IF ~IsDatetime(s)
    THEN Raised(NonConvertibleIndex, <<Plain("infer_freq")>>)
    ELSE IF InferFreqRaises(s.index)
    THEN Raised(NeedThreeDates, <<Plain("infer_freq")>>)
    ELSE Ok(IndexDescription(s),
            <<Plain("infer_freq"), Plain("min_max"), Plain("date_range"),
              Plain("difference"), Plain("type_check")>>)

describe_time_index(s) ==
    IF ~IsDatetime(s)
    THEN Raised(InvalidIndexType, <<Plain("type_check")>>)
    ELSE IF InferFreqRaises(s.index)
    THEN Raised(NeedThreeDates, <<Plain("type_check"), Plain("infer_freq")>>)
    ELSE Ok(IndexDescription(s),
            <<Plain("type_check"), Plain("infer_freq"), Plain("min_max"),
              Plain("date_range"), Plain("difference")>>)

DescribeTimeIndex ==
    /\ Idle
    /\ call' = Plain("describe_time_index")
    /\ out' = describe_time_index(ts)
    /\ derived' = NoSeries
    /\ UNCHANGED <<ts, ts0, ndiff, report, model>>

-----------------------------------------------------------------------------
(* Real numbers: exact fractions, and NaN *)

Frac(num, den) == [num |-> num, den |-> den]
NaN == Frac(0, 0)
IsNaN(x) == x.den = 0
\* x = 1.0
IsOne(x) == x.den # 0 /\ x.num = x.den
\* x = 0.0
IsZero(x) == x.den # 0 /\ x.num = 0

-----------------------------------------------------------------------------
(* pandas: Series.diff().dropna() and Series.resample(rule).mean().dropna() *)

\* a differencing that keeps the first position instead of dropping it
DiffKeepFirst(s) ==
    Series(s.kind, s.name, s.index,
           [i \in 1..Len(s.values) |->
               IF i = 1 THEN 0 ELSE s.values[i] - s.values[i - 1]])

\* diff() puts NaN first and value[i] - value[i - 1] after it; dropna() drops
\* the NaN with its timestamp (the values of the series are clean)
DiffDropna(s) ==
    Series(s.kind, s.name,
           [i \in 1..(Len(s.index) - 1) |-> s.index[i + 1]],
           [i \in 1..(Len(s.values) - 1) |-> s.values[i + 1] - s.values[i]])

ResampleRules == {"h", "d", "w"}

\* the label of the bin of rule that timestamp t falls in: the hour, the day,
\* or the Sunday that ends the week ('w' is W-SUN, closed and labelled right)
BinLabel(rule, t) ==
    IF rule = "h" THEN t
    ELSE IF rule = "d" THEN 24 * (t \div 24)
    ELSE 168 * (t \div 168) + 144

ResampleRaises(s) == ~IsDatetime(s)
ResampleError == "TypeError: Only valid with DatetimeIndex, TimedeltaIndex or PeriodIndex"

\* the first position in lo..hi of the ascending labels that holds l or more
\* (hi + 1 if there is none), by bisection
RECURSIVE FirstAtLeast(_, _, _, _)
FirstAtLeast(label, l, lo, hi) ==
    IF lo > hi THEN lo
    ELSE LET mid == (lo + hi) \div 2
         IN  IF label[mid] >= l THEN FirstAtLeast(label, l, lo, mid - 1)
             ELSE FirstAtLeast(label, l, mid + 1, hi)

\* the mean of every bin that holds a value, as sum / count; empty bins are NaN
\* and dropped.  The positions of a bin are those whose timestamp carries its
\* label; on an ascending index they are consecutive and found by bisection
ResampleMean(s, rule) ==
    LET n == Len(s.index)
        label == [i \in 1..n |-> BinLabel(rule, s.index[i])]
        labels == SortedSeq(Range(label))
        ascending == \A i \in 1..(n - 1) : label[i] <= label[i + 1]
        members(l) == IF ascending
                      THEN FirstAtLeast(label, l, 1, n)..(FirstAtLeast(label, l + 1, 1, n) - 1)
                      ELSE {i \in 1..n : label[i] = l}
        mean(l) == LET positions == SortedSeq(members(l))
                   IN  Frac(Sum([j \in 1..Len(positions) |-> s.values[positions[j]]]),
                            Len(positions))
    IN  Series(s.kind, s.name, labels, [b \in 1..Len(labels) |-> mean(labels[b])])

-----------------------------------------------------------------------------
(* statsmodels: acf, pacf, adfuller *)

EmptyInput == "ValueError: zero-size array"

\* the number of coefficients avf[: nlags + 1] keeps of the nobs autocovariances
AcfLen(nobs, nlags) ==
    IF nlags + 1 >= 0 THEN Min2(nlags + 1, nobs) ELSE Max2(nobs + nlags + 1, 0)

\* acovf(x, demean=True)[lag] * nobs^3: sum of (n x[t] - S)(n x[t+lag] - S)
Acovf(x, lag) ==
    LET n == Len(x)
        S == Sum(x)
    IN  Sum([t \in 1..(n - lag) |-> (n * x[t] - S) * (n * x[t + lag] - S)])

\* acf(x, nlags): avf[: nlags + 1] / avf[0]; position i holds lag i - 1
Acf(x, nlags) ==
    [i \in 1..AcfLen(Len(x), nlags) |->
        IF Acovf(x, 0) = 0 THEN NaN ELSE Frac(Acovf(x, i - 1), Acovf(x, 0))]

PacfTooManyLags ==
    "ValueError: Can only compute partial correlations for lags up to 50% of the sample size"

\* pacf raises when nlags > nobs // 2, and on an empty input
PacfRaises(nobs, nlags) == nobs = 0 \/ nlags > nobs \div 2

\* pacf_yw: [1.0] followed by one coefficient for each k in range(1, nlags + 1)
PacfLen(nlags) == 1 + Max2(nlags, 0)

AdfConstant == "ValueError: Invalid input, x is constant"
AdfTooShort ==
    "ValueError: sample size is too short to use selected regression component"

IsConstant(x) == \A i, j \in 1..Len(x) : x[i] = x[j]

\* the results <<statistic, p-value>> (in thousandths) the test is let to
\* return: the p-value, mackinnonp, is a normal cdf, so it lies in 0..1
AdfResults == {<<-6000, 0>>, <<-2870, 49>>, <<-2850, 51>>, <<3000, 1000>>}

\* the critical values (in thousandths) of the constant-only regression for
\* the 1%, 5% and 10% levels: large-sample and small-sample, all negative
AdfCriticalValues == {<<-3430, -2862, -2567>>, <<-4200, -3100, -2700>>}

-----------------------------------------------------------------------------
(* The engine's operations *)

NoNameError == "TypeError: unsupported operand type(s) for +: 'NoneType' and 'str'"

\* go.Figure of one trace over a series
Figure(kind, s) == [kind |-> kind, x |-> s.index, y |-> s.values]

TsToPlot(s, differenced) == IF differenced THEN DiffDropna(s) ELSE s

\* plot_time_series, make_box_plot: the title is "..." + name
TitledFigure(kind, s) ==
    IF s.name = None THEN Raised(NoNameError, <<>>) ELSE Ok(Figure(kind, s), <<>>)

\* a plot_time_series that keeps the series it plots as the held series
PlotTimeSeriesKeepsPlotted ==
    \E differenced \in BOOLEAN :
        /\ Idle
        /\ call' = Call("plot_time_series", differenced, 0, 0, None)
        /\ derived' = TsToPlot(ts, differenced)
        /\ ts' = derived'
        /\ out' = TitledFigure("scatter", derived')
        /\ UNCHANGED <<ts0, ndiff, report, model>>

PlotTimeSeries ==
    \E differenced \in BOOLEAN :
        /\ Idle
        /\ call' = Call("plot_time_series", differenced, 0, 0, None)
        /\ derived' = TsToPlot(ts, differenced)
        /\ out' = TitledFigure("scatter", derived')
        /\ UNCHANGED <<ts, ts0, ndiff, report, model>>

MakeBoxPlot ==
    \E differenced \in BOOLEAN :
        /\ Idle
        /\ call' = Call("make_box_plot", differenced, 0, 0, None)
        /\ derived' = TsToPlot(ts, differenced)
        /\ out' = TitledFigure("box", derived')
        /\ UNCHANGED <<ts, ts0, ndiff, report, model>>

\* a plot_distribution_histogram that plots the differenced series and leaves
\* self.ts alone
PlotDistributionHistogramKeepsHeld ==
    \E differenced \in BOOLEAN :
        /\ Idle
        /\ differenced => ndiff < MaxHistDiff
        /\ call' = Call("plot_distribution_histogram", differenced, 0, 0, None)
        /\ derived' = TsToPlot(ts, differenced)
        /\ ndiff' = IF differenced THEN ndiff + 1 ELSE ndiff
        /\ out' = TitledFigure("histogram", derived')
        /\ UNCHANGED <<ts, ts0, report, model>>

\* plot_distribution_histogram: differenced=True also stores the differenced
\* series in self.ts
PlotDistributionHistogram ==
    \E differenced \in BOOLEAN :
        /\ Idle
        /\ differenced => ndiff < MaxHistDiff
        /\ call' = Call("plot_distribution_histogram", differenced, 0, 0, None)
        /\ derived' = TsToPlot(ts, differenced)
        /\ ts' = IF differenced THEN derived' ELSE ts
        /\ ndiff' = IF differenced THEN ndiff + 1 ELSE ndiff
        /\ out' = TitledFigure("histogram", derived')
        /\ UNCHANGED <<ts0, report, model>>

\* describe_distribution: min, max, range and mean (as exact values); the
\* quartiles, standard deviation, skewness and kurtosis are not modelled
describe_distribution(s) ==
    LET n == Len(s.values)
    IN  IF n = 0
        THEN [min |-> NaN, max |-> NaN, range |-> NaN, mean |-> NaN]
        ELSE [min |-> Frac(MinOf(Range(s.values)), 1),
              max |-> Frac(MaxOf(Range(s.values)), 1),
              range |-> Frac(MaxOf(Range(s.values)) - MinOf(Range(s.values)), 1),
              mean |-> Frac(Sum(s.values), n)]

DescribeDistribution ==
    /\ Idle
    /\ call' = Plain("describe_distribution")
    /\ out' = Ok(describe_distribution(ts), <<>>)
    /\ derived' = NoSeries
    /\ UNCHANGED <<ts, ts0, ndiff, report, model>>

DefaultWindow == 24
Windows == {2, DefaultWindow}

\* plot_rolling_statistics: the rolling mean and deviation are defined from
\* position window on (the figure keeps how many points are)
PlotRollingStatistics ==
    \E window \in Windows :
        /\ Idle
        /\ call' = Call("plot_rolling_statistics", FALSE, window, 0, None)
        /\ out' = Ok([kind |-> "rolling", x |-> ts.index,
                      defined |-> Max2(Len(ts.values) - window + 1, 0)], <<>>)
        /\ derived' = NoSeries
        /\ UNCHANGED <<ts, ts0, ndiff, report, model>>

-----------------------------------------------------------------------------
(* The index specification: the engine built on one series whose index is  *)
(* any short sequence of timestamps, then describe_time_index.             *)

TimeUniverse == (0..4) \cup {24, 48, 72, 96}

IndexKinds == {"datetime64", "int64"}

\* the orders an index of the timestamps S can come in
IndexOrders(S) ==
    LET asc == SortedSeq(S)
        n == Len(asc)
        desc == [i \in 1..n |-> asc[n + 1 - i]]
        swapped == [i \in 1..n |-> IF i = 1 THEN asc[Min2(2, n)]
                                   ELSE IF i = 2 THEN asc[1] ELSE asc[i]]
        dup == asc \o <<asc[n]>>
    IN  {asc, desc, swapped} \cup (IF n < MaxIdxLen THEN {dup} ELSE {})

InitIndex ==
    \E kind \in IndexKinds, S \in SUBSET TimeUniverse :
        /\ S # {} /\ Cardinality(S) <= MaxIdxLen
        /\ \E idx \in IndexOrders(S) :
              /\ ts = Series(kind, "y", idx, [i \in 1..Len(idx) |-> 0])
              /\ ts0 = ts
        /\ call = NoCall
        /\ out = NoOut
        /\ derived = NoSeries
        /\ ndiff = 0
        /\ report = NoReport
        /\ model = NoModel

NextIndex == DescribeTimeIndex \/ Return

SpecIndex == InitIndex /\ [][NextIndex]_vars

\* the verdict taken at the 5% significance level instead
describe_stationarity_at_level(s, r, cv) ==
    IF Len(s.values) = 0 THEN Raised(EmptyInput, <<>>)
    ELSE IF IsConstant(s.values) THEN Raised(AdfConstant, <<>>)
    ELSE IF Len(s.values) < 4 THEN Raised(AdfTooShort, <<>>)
    ELSE Ok([adf_statistic |-> r[1], p_value |-> r[2], used_lag |-> 0,
             n_obs |-> Len(s.values) - 1, ic_best |-> 0,
             critical_value_1pct |-> cv[1],
             critical_value_5pct |-> cv[2],
             critical_value_10pct |-> cv[3],
             stationarity |-> r[2] < 50], <<>>)

\* a describe_stationarity whose verdict compares the test statistic with the
\* critical value
describe_stationarity_by_statistic(s, r, cv) ==
    IF Len(s.values) = 0 THEN Raised(EmptyInput, <<>>)
    ELSE IF IsConstant(s.values) THEN Raised(AdfConstant, <<>>)
    ELSE IF Len(s.values) < 4 THEN Raised(AdfTooShort, <<>>)
    ELSE Ok([adf_statistic |-> r[1], p_value |-> r[2], used_lag |-> 0,
             n_obs |-> Len(s.values) - 1, ic_best |-> 0,
             critical_value_1pct |-> cv[1],
             critical_value_5pct |-> cv[2],
             critical_value_10pct |-> cv[3],
             stationarity |-> r[1] < cv[2]], <<>>)

\* describe_stationarity, for the test result r = <<statistic, p-value>> and the
\* critical values cv that adfuller returns
describe_stationarity(s, r, cv) ==
    IF Len(s.values) = 0 THEN Raised(EmptyInput, <<>>)
    ELSE IF IsConstant(s.values) THEN Raised(AdfConstant, <<>>)
    ELSE IF Len(s.values) < 4 THEN Raised(AdfTooShort, <<>>)
    ELSE LET adf_dict == [adf_statistic |-> r[1], p_value |-> r[2], used_lag |-> 0,
                          n_obs |-> Len(s.values) - 1, ic_best |-> 0,
                          critical_value_1pct |-> cv[1],
                          critical_value_5pct |-> cv[2],
                          critical_value_10pct |-> cv[3]]
         IN  IF adf_dict.p_value < adf_dict.critical_value_5pct
             THEN Ok(adf_dict @@ [stationarity |-> TRUE], <<>>)
             ELSE Ok(adf_dict @@ [stationarity |-> FALSE], <<>>)

DescribeStationarity ==
    \E r \in AdfResults, cv \in AdfCriticalValues :
        /\ Idle
        /\ call' = Plain("describe_stationarity")
        /\ out' = describe_stationarity(ts, r, cv)
        /\ derived' = NoSeries
        /\ UNCHANGED <<ts, ts0, ndiff, report, model>>

NLags == (-1)..(MaxLen + 1)

\* describe_acf: {lag_i: acf_values[i]}; position i + 1 of lags holds lag_i
describe_acf(s, nlags) ==
    IF Len(s.values) = 0 THEN Raised(EmptyInput, <<>>)
    ELSE Ok([kind |-> "acf", lags |-> Acf(s.values, nlags)], <<>>)

DescribeAcf ==
    \E nlags \in NLags :
        /\ Idle
        /\ call' = Call("describe_acf", FALSE, 0, nlags, None)
        /\ out' = describe_acf(ts, nlags)
        /\ derived' = NoSeries
        /\ UNCHANGED <<ts, ts0, ndiff, report, model>>

\* describe_pacf: {lag_i: pacf_values[i]}; the value keeps how many there are
describe_pacf(s, nlags) ==
    IF PacfRaises(Len(s.values), nlags)
    THEN Raised(IF Len(s.values) = 0 THEN EmptyInput ELSE PacfTooManyLags, <<>>)
    ELSE Ok([kind |-> "pacf", coefficients |-> PacfLen(nlags)], <<>>)

DescribePacf ==
    \E nlags \in NLags :
        /\ Idle
        /\ call' = Call("describe_pacf", FALSE, 0, nlags, None)
        /\ out' = describe_pacf(ts, nlags)
        /\ derived' = NoSeries
        /\ UNCHANGED <<ts, ts0, ndiff, report, model>>

\* ts_to_use of plot_acf and plot_pacf
TsToUse(s, resample_to) ==
    IF resample_to # None THEN ResampleMean(s, resample_to) ELSE s

\* plot_acf: one bar for each coefficient, and the band at 1.96 / sqrt(len);
\* the figure keeps the number of bars and the length the band is taken from
plot_acf(s, nlags, resample_to) ==
    IF resample_to # None /\ ResampleRaises(s) THEN Raised(ResampleError, <<>>)
    ELSE LET ts_to_use == TsToUse(s, resample_to)
         IN  IF Len(ts_to_use.values) = 0 THEN Raised(EmptyInput, <<>>)
             ELSE Ok([kind |-> "acf",
                      bars |-> AcfLen(Len(ts_to_use.values), nlags),
                      band_n |-> Len(ts_to_use.values)], <<>>)

\* plot_pacf, likewise
plot_pacf(s, nlags, resample_to) ==
    IF resample_to # None /\ ResampleRaises(s) THEN Raised(ResampleError, <<>>)
    ELSE LET ts_to_use == TsToUse(s, resample_to)
         IN  IF PacfRaises(Len(ts_to_use.values), nlags)
             THEN Raised(IF Len(ts_to_use.values) = 0 THEN EmptyInput
                         ELSE PacfTooManyLags, <<>>)
             ELSE Ok([kind |-> "pacf",
                      bars |-> PacfLen(nlags),
                      band_n |-> Len(ts_to_use.values)], <<>>)

\* the local series a correlation plot is left with
UsedSeries(s, resample_to) ==
    IF resample_to # None /\ ResampleRaises(s) THEN NoSeries
    ELSE TsToUse(s, resample_to)

ResampleTargets == {None} \cup ResampleRules

PlotAcf ==
    \E nlags \in NLags, resample_to \in ResampleTargets :
        /\ Idle
        /\ call' = Call("plot_acf", FALSE, 0, nlags, resample_to)
        /\ out' = plot_acf(ts, nlags, resample_to)
        /\ derived' = UsedSeries(ts, resample_to)
        /\ UNCHANGED <<ts, ts0, ndiff, report, model>>

PlotPacf ==
    \E nlags \in NLags, resample_to \in ResampleTargets :
        /\ Idle
        /\ call' = Call("plot_pacf", FALSE, 0, nlags, resample_to)
        /\ out' = plot_pacf(ts, nlags, resample_to)
        /\ derived' = UsedSeries(ts, resample_to)
        /\ UNCHANGED <<ts, ts0, ndiff, report, model>>

-----------------------------------------------------------------------------
(* The engine specification: the engine built on one short series, then any *)
(* sequence of its operations.                                              *)

SampleValues == {0, 1}
Names == {"y", None}

\* hourly timestamps that cross midnight, and daily timestamps
SampleGrid(n) == {[i \in 1..n |-> 21 + i], [i \in 1..n |-> 24 * (i - 1)]}

\* an integer index is the default RangeIndex 0, 1, ...
SampleIndex(kind, n) ==
    IF kind = "datetime64" THEN SampleGrid(n) ELSE {[i \in 1..n |-> i - 1]}

Init ==
    \E kind \in IndexKinds, name \in Names, n \in 1..MaxLen :
        \E idx \in SampleIndex(kind, n), values \in [1..n -> SampleValues] :
            /\ ts = Series(kind, name, idx, values)
            /\ ts0 = ts
            /\ call = NoCall
            /\ out = NoOut
            /\ derived = NoSeries
            /\ ndiff = 0
            /\ report = NoReport
            /\ model = NoModel

Next ==
    \/ DescribeTimeIndex
    \/ PlotTimeSeries
    \/ DescribeDistribution
    \/ MakeBoxPlot
    \/ PlotRollingStatistics
    \/ PlotDistributionHistogram
    \/ DescribeStationarity
    \/ DescribeAcf
    \/ PlotAcf
    \/ DescribePacf
    \/ PlotPacf
    \/ Return

Spec == Init /\ [][Next]_vars

-----------------------------------------------------------------------------
(* UnivaritateEDAReport *)

UnboundLocal == "UnboundLocalError: cannot access local variable 'lag1'"

\* UnivaritateEDAReport.__init__: the description of the time index is taken
\* once, when the report is built; if it raises, no report is built.  written
\* tells whether univariate_eda_report.html has been written
ReportInit ==
    /\ Idle /\ ~report.built
    /\ call' = Plain("UnivaritateEDAReport.__init__")
    /\ out' = describe_time_index(ts)
    /\ report' = IF out'.status = "ok"
                 THEN [built |-> TRUE, index_description |-> out'.value,
                       written |-> FALSE]
                 ELSE NoReport
    /\ derived' = NoSeries
    /\ UNCHANGED <<ts, ts0, ndiff, model>>

\* the if / elif chain of _self_correlation_panel: it has no else branch, so
\* lag1, lag2 and resample_to stay unbound for any other frequency
CadencePolicy(inferred_freq) ==
    IF IsAlias(inferred_freq, "M")
    THEN [bound |-> TRUE, lag1 |-> 12, lag2 |-> 60, resample_to |-> "h"]
    ELSE IF IsAlias(inferred_freq, "h")
    THEN [bound |-> TRUE, lag1 |-> 24, lag2 |-> 168, resample_to |-> "d"]
    ELSE IF IsAlias(inferred_freq, "d")
    THEN [bound |-> TRUE, lag1 |-> 30, lag2 |-> 365, resample_to |-> "w"]
    ELSE [bound |-> FALSE, lag1 |-> 0, lag2 |-> 0, resample_to |-> None]

\* the four engine calls of the panel, in order
PanelCalls(sel) ==
    <<Call("plot_acf", FALSE, 0, sel.lag1, None),
      Call("plot_pacf", FALSE, 0, sel.lag1, None),
      Call("plot_acf", FALSE, 0, sel.lag2, sel.resample_to),
      Call("plot_pacf", FALSE, 0, sel.lag2, sel.resample_to)>>

EngineCall(s, c) ==
    IF c.name = "plot_acf" THEN plot_acf(s, c.nlags, c.resample_to)
    ELSE plot_pacf(s, c.nlags, c.resample_to)

\* _self_correlation_panel on the held series s: the calls it makes, up to
\* the first that raises, are the stages of its outcome
self_correlation_panel(rep, s) ==
    LET sel == CadencePolicy(rep.index_description.inferred_frequency)
        calls == PanelCalls(sel)
        failing == {i \in 1..4 : EngineCall(s, calls[i]).status = "raised"}
    IN  IF ~sel.bound THEN Raised(UnboundLocal, <<>>)
        ELSE IF failing # {}
        THEN Raised(EngineCall(s, calls[MinOf(failing)]).error,
                    SubSeq(calls, 1, MinOf(failing)))
        ELSE Ok([kind |-> "self_correlation",
                 traces |-> [i \in 1..4 |-> EngineCall(s, calls[i]).value]], calls)

SelfCorrelationPanel ==
    /\ Idle /\ report.built
    /\ call' = Plain("_self_correlation_panel")
    /\ out' = self_correlation_panel(report, ts)
    /\ derived' = NoSeries
    /\ UNCHANGED <<ts, ts0, ndiff, report, model>>

-----------------------------------------------------------------------------
(* UnivaritateEDAReport.generate, one action for each of its statements.  The *)
(* contents computed so far are the value of the call in progress, each with  *)
(* the series the engine held when it was computed.                           *)

Content(name, s) == [name |-> name, series |-> s]

Generating(contents) == [kind |-> "generate", contents |-> contents]

\* the value of a generate that has written its document
Generated(contents) == [kind |-> "generated", contents |-> contents]

\* generate is in progress and has computed its first n contents
InGenerate(n) ==
    /\ call.name = "generate" /\ out.status = "ok"
    /\ out.value.kind = "generate" /\ Len(out.value.contents) = n

\* generate is called: output_path.mkdir(parents=True, exist_ok=True)
Generate ==
    /\ Idle /\ report.built
    /\ ndiff < MaxHistDiff
    /\ call' = Plain("generate")
    /\ out' = Ok(Generating(<<>>), <<>>)
    /\ derived' = NoSeries
    /\ UNCHANGED <<ts, ts0, ndiff, report, model>>

\* tsi_html = self._write_html_table(self.univariate_eda.describe_time_index())
GenerateTimeIndexTable ==
    /\ InGenerate(0)
    /\ LET r == describe_time_index(ts)
       IN  out' = IF r.status = "raised" THEN r
                  ELSE Ok(Generating(<<Content("tsi_html", ts)>>), <<>>)
    /\ UNCHANGED <<ts, ts0, call, derived, ndiff, report, model>>

\* stationarity_html = self._write_html_table(describe_stationarity())
GenerateStationarityTable ==
    /\ InGenerate(1)
    /\ \E r \in AdfResults, cv \in AdfCriticalValues :
          LET d == describe_stationarity(ts, r, cv)
          IN  out' = IF d.status = "raised" THEN d
                     ELSE Ok(Generating(Append(out.value.contents,
                                               Content("stationarity_html", ts))), <<>>)
    /\ UNCHANGED <<ts, ts0, call, derived, ndiff, report, model>>

\* _ts_and_distribution_panel on the held series s: plot_time_series(), the
\* box, plot_distribution_histogram(orientation='h'),
\* plot_time_series(differenced=True), the box of the differences, and
\* plot_distribution_histogram(differenced=True, orientation='h'); the first
\* call raises for a series without a name, and the last leaves the engine
\* holding the differenced series
ts_and_distribution_panel(s) ==
    IF s.name = None THEN [raised |-> TRUE, held |-> s, differenced |-> 0]
    ELSE [raised |-> FALSE, held |-> DiffDropna(s), differenced |-> 1]

\* ts_dist = self._ts_and_distribution_panel().to_html(...)
GenerateTsAndDistributionPanel ==
    /\ InGenerate(2)
    /\ LET p == ts_and_distribution_panel(ts)
       IN  /\ out' = IF p.raised THEN Raised(NoNameError, <<>>)
                     ELSE Ok(Generating(Append(out.value.contents,
                                               Content("ts_dist", ts))), <<>>)
           /\ ts' = p.held
           /\ ndiff' = ndiff + p.differenced
    /\ UNCHANGED <<ts0, call, derived, report, model>>

\* windowed = self._windowed_statistics_panel().to_html(...): the rolling
\* statistics of the held series, with the default window
GenerateWindowedStatisticsPanel ==
    /\ InGenerate(3)
    /\ out' = Ok(Generating(Append(out.value.contents, Content("windowed", ts))), <<>>)
    /\ UNCHANGED <<ts, ts0, call, derived, ndiff, report, model>>

\* self_corr = self._self_correlation_panel().to_html(...)
GenerateSelfCorrelationPanel ==
    /\ InGenerate(4)
    /\ LET r == self_correlation_panel(report, ts)
       IN  out' = IF r.status = "raised" THEN r
                  ELSE Ok(Generating(Append(out.value.contents,
                                            Content("self_corr", ts))), r.stages)
    /\ UNCHANGED <<ts, ts0, call, derived, ndiff, report, model>>

\* a generate that writes the document before the self-correlation panel
GenerateWriteEarly ==
    /\ InGenerate(4)
    /\ report' = [report EXCEPT !.written = TRUE]
    /\ out' = Ok(Generated(out.value.contents), out.stages)
    /\ UNCHANGED <<ts, ts0, call, derived, ndiff, model>>

\* with open(output_path / "univariate_eda_report.html", "w") as f: f.write(...)
GenerateWrite ==
    /\ InGenerate(5)
    /\ report' = [report EXCEPT !.written = TRUE]
    /\ out' = Ok(Generated(out.value.contents), out.stages)
    /\ UNCHANGED <<ts, ts0, call, derived, ndiff, model>>

-----------------------------------------------------------------------------
(* The report specification: the engine built on one short series, on a     *)
(* short series of no single cadence, or on an hourly series long enough    *)
(* for every panel to succeed; a report built on the engine, the report's   *)
(* panel and generate.                                                      *)

\* the resampled PACF of the panel needs twice its 168 lags in days, of 24
\* hourly values each, and one value more once the series is differenced
LongLen == 2 * 168 * 24 + 1

LongSeries ==
    Series("datetime64", "y", [i \in 1..LongLen |-> i - 1],
           [i \in 1..LongLen |-> i % 3])

\* an hourly index with one timestamp missing: no single frequency fits it
GappedIndex == <<22, 23, 25, 26>>

InitReport ==
    \/ Init
    \/ /\ ts \in {LongSeries}
              \cup {Series("datetime64", "y", GappedIndex, values) :
                       values \in [1..Len(GappedIndex) -> SampleValues]}
       /\ ts0 = ts
       /\ call = NoCall
       /\ out = NoOut
       /\ derived = NoSeries
       /\ ndiff = 0
       /\ report = NoReport
       /\ model = NoModel

NextReport ==
    \/ ReportInit
    \/ SelfCorrelationPanel
    \/ Generate
    \/ GenerateTimeIndexTable
    \/ GenerateStationarityTable
    \/ GenerateTsAndDistributionPanel
    \/ GenerateWindowedStatisticsPanel
    \/ GenerateSelfCorrelationPanel
    \/ GenerateWrite
    \/ Return

SpecReport == InitReport /\ [][NextReport]_vars

-----------------------------------------------------------------------------
(* The model contracts: BaseAnomalyDetector, BaseClassifier, BaseForecaster. *)
(* fit, detect and predict are abstract: what a subclass returns, or that it *)
(* raises, is any of the outcomes below.                                     *)

ContractKinds == {"detector", "classifier", "forecaster"}
Instances == {1, 2}
Data == {"a", "b"}

\* the arguments a caller hands to the composite operation of each contract:
\* fit_detect(X), fit_predict(X, y), fit_predict(y, steps, X=None)
CallerArgs(kind) ==
    IF kind = "detector" THEN [X : Data, y : {None}, steps : {0}]
    ELSE IF kind = "classifier" THEN [X : Data, y : Data, steps : {0}]
    ELSE [X : Data \cup {None}, y : Data, steps : 1..MaxSteps]

NoArgs == [X |-> None, y |-> None, steps |-> 0]

\* a method call with the parameters it binds (a parameter the method does
\* not have is None, or 0 for steps)
MethodCall(op, X, y, steps) == [op |-> op, X |-> X, y |-> y, steps |-> steps]

\* BaseAnomalyDetector.fit_detect: self.fit(X); return self.detect(X)
fit_detect(a) ==
    <<MethodCall("fit", a.X, None, 0), MethodCall("detect", a.X, None, 0)>>

\* BaseClassifier.fit_predict: self.fit(X, y); return self.predict(X)
classifier_fit_predict(a) ==
    <<MethodCall("fit", a.X, a.y, 0), MethodCall("predict", a.X, None, 0)>>

\* a fit_predict that hands fit its arguments in the order of the classifier's
forecaster_fit_predict_swapped(a) ==
    <<MethodCall("fit", a.y, a.X, 0), MethodCall("predict", a.X, None, a.steps)>>

\* BaseForecaster.fit_predict: self.fit(y, X); return self.predict(steps, X)
forecaster_fit_predict(a) ==
    <<MethodCall("fit", a.X, a.y, 0), MethodCall("predict", a.X, None, a.steps)>>

CompositeBody(kind, a) ==
    IF kind = "detector" THEN fit_detect(a)
    ELSE IF kind = "classifier" THEN classifier_fit_predict(a)
    ELSE forecaster_fit_predict(a)

\* what a subclass's method may do: fit returns self, the prediction operation
\* returns an array, and either may raise
Outcomes(op) == IF op = "fit" THEN {"self", "raise"} ELSE {"r1", "r2", "raise"}

\* the caller invokes the composite operation on the instance
CompositeCall ==
    /\ model.kind \in ContractKinds /\ model.pc = "idle"
    /\ \E a \in CallerArgs(model.kind) :
          model' = [model EXCEPT !.pc = "running", !.args = a,
                                 !.log = <<>>, !.result = None]
    /\ UNCHANGED <<ts, ts0, call, out, derived, ndiff, report>>

\* the next statement of the composite operation: a call of a method of self,
\* logged with the instance that received it and with its outcome
CompositeStep ==
    /\ model.kind \in ContractKinds /\ model.pc = "running"
    /\ LET body == CompositeBody(model.kind, model.args)
           i == Len(model.log) + 1
       IN  \E ret \in Outcomes(body[i].op) :
              model' = [model EXCEPT
                  !.log = Append(@, body[i] @@ [self |-> model.self, ret |-> ret]),
                  !.pc = IF ret = "raise" THEN "raised"
                         ELSE IF i = Len(body) THEN "returned" ELSE "running",
                  !.result = IF ret # "raise" /\ i = Len(body) THEN ret ELSE @]
    /\ UNCHANGED <<ts, ts0, call, out, derived, ndiff, report>>

\* the composite operation has returned or raised: the caller goes on
CompositeReturn ==
    /\ model.kind \in ContractKinds /\ model.pc \in {"returned", "raised"}
    /\ model' = [model EXCEPT !.pc = "idle", !.args = NoArgs,
                              !.log = <<>>, !.result = None]
    /\ UNCHANGED <<ts, ts0, call, out, derived, ndiff, report>>

InitContract ==
    /\ \E kind \in ContractKinds, self \in Instances :
          model = [kind |-> kind, self |-> self, pc |-> "idle", args |-> NoArgs,
                   log |-> <<>>, result |-> None]
    /\ ts = NoSeries /\ ts0 = NoSeries
    /\ call = NoCall /\ out = NoOut /\ derived = NoSeries
    /\ ndiff = 0 /\ report = NoReport

NextContract == CompositeCall \/ CompositeStep \/ CompositeReturn

SpecContract == InitContract /\ [][NextContract]_vars

-----------------------------------------------------------------------------
(* Properties of describe_time_index, checked under SpecIndex *)

Described == call.name = "describe_time_index"

\* an ascending index whose consecutive timestamps are all one step apart
IsRegularGrid(idx) ==
    /\ Len(idx) >= 2
    /\ \E step \in 1..168 : \A i \in 1..(Len(idx) - 1) : idx[i + 1] - idx[i] = step

\* what C1 promises of the description of a complete regular grid
CompleteGridDescription(idx, d) ==
    /\ d.n_missing_timestamps = 0
    /\ d.missing_timestamps = <<>>
    /\ d.inferred_frequency # NoFreq
    /\ \A i \in 1..(Len(idx) - 1) :
          idx[i + 1] - idx[i] = FreqHours(d.inferred_frequency)
    /\ d.start_time \in Range(idx) /\ \A t \in Range(idx) : d.start_time <= t
    /\ d.end_time \in Range(idx) /\ \A t \in Range(idx) : d.end_time >= t

GridWithOneGap(idx, step, gap) ==
    /\ Len(idx) >= 3
    /\ idx[gap + 1] - idx[gap] = 2 * step
    /\ \A i \in (1..(Len(idx) - 1)) \ {gap} : idx[i + 1] - idx[i] = step

\* C2 as stated: a regular grid with exactly one interior timestamp removed is
\* described with n_missing_timestamps = 1 and the removed timestamp listed
C2_OneGapReported ==
    \A step \in 1..48 : \A gap \in 1..(Len(ts.index) - 1) :
        (Described /\ IsDatetime(ts) /\ GridWithOneGap(ts.index, step, gap))
            => /\ out.status = "ok"
               /\ out.value.n_missing_timestamps = 1
               /\ out.value.missing_timestamps = <<ts.index[gap] + step>>

InferenceFailed ==
    Described /\ out.status = "ok" /\ out.value.inferred_frequency = NoFreq

\* C3 as stated: when no frequency is inferred, no missing timestamp is reported
C3_NoFrequencyNoMissing ==
    InferenceFailed
        => (out.value.n_missing_timestamps = 0 /\ out.value.missing_timestamps = <<>>)

\* C7: describe_time_index raises the index-type error whenever the index is not
\* a datetime index, having done nothing but the type check, returns no
\* description then, and never raises that error for a datetime index
C7_IndexTypeChecked ==
    Described
        => /\ ~IsDatetime(ts)
                => /\ out.status = "raised"
                   /\ out.error = InvalidIndexType
                   /\ out.stages = <<Plain("type_check")>>
           /\ IsDatetime(ts) => out.error # InvalidIndexType

\* describe_time_index has raised the index-type error on a non-datetime index
C7_Witness ==
    Described /\ ~IsDatetime(ts) /\ out.status = "raised" /\ out.error = InvalidIndexType

-----------------------------------------------------------------------------
(* Properties of the engine's operations, checked under Spec *)

FrameOps ==
    {"describe_time_index", "describe_distribution", "describe_stationarity",
     "describe_acf", "describe_pacf", "plot_time_series", "make_box_plot",
     "plot_rolling_statistics", "plot_acf", "plot_pacf"}

\* C4: plot_time_series, make_box_plot, plot_acf, plot_pacf, the describe_*
\* operations and plot_rolling_statistics leave self.ts as it was, whatever
\* series they derive; as long as no other operation has overwritten it, the
\* held series is the one supplied at construction
C4_HeldSeriesKept ==
    /\ [][call'.name \in FrameOps => ts' = ts]_vars
    /\ [](ndiff = 0 => ts = ts0)

\* plot_acf has resampled the held series into a different, shorter series and
\* the held series is still the one supplied at construction
C4_Witness ==
    /\ call.name = "plot_acf" /\ call.resample_to = "d"
    /\ out.status = "ok" /\ Len(derived.values) < Len(ts.values)
    /\ ts = ts0

DerivedDifferenced ==
    /\ call.name \in {"plot_time_series", "make_box_plot", "plot_distribution_histogram"}
    /\ call.differenced

\* C9: the series an operation derives by differencing a held series of n >= 1
\* values has n - 1 values, value i being held[i + 1] - held[i] (1-based), on
\* the held index without its first timestamp; a constant series gives zeros
C9_DifferencedSeries ==
    [][(DerivedDifferenced' /\ Len(ts.values) >= 1)
          => /\ Len(derived'.values) = Len(ts.values) - 1
             /\ \A i \in 1..(Len(ts.values) - 1) :
                   derived'.values[i] = ts.values[i + 1] - ts.values[i]
             /\ derived'.index = Tail(ts.index)
             /\ IsConstant(ts.values)
                   => \A i \in 1..Len(derived'.values) : derived'.values[i] = 0]_vars

\* a series of three or more values has been differenced into one that is not
\* constant
C9_Witness ==
    /\ DerivedDifferenced /\ call.name = "make_box_plot"
    /\ Len(derived.values) >= 2 /\ ~IsConstant(derived.values)

LagOps == {"describe_acf", "describe_pacf", "plot_acf", "plot_pacf"}

\* the series a lag operation computes its coefficients from
LagSeries == IF call.name \in {"plot_acf", "plot_pacf"} THEN derived ELSE ts

\* C6 as stated: an ACF or PACF operation raises exactly when nlags is not
\* positive or not below the length of the series it uses
C6_InvalidLagCountRaises ==
    (call.name \in LagOps /\ out.error # ResampleError)
        => (out.status = "raised"
               <=> ~(0 < call.nlags /\ call.nlags < Len(LagSeries.values)))

\* C8: the verdict of describe_stationarity is True exactly when the p-value is
\* below the 5% critical value, and the result holds the critical values of
\* the 1%, 5% and 10% levels
C8_StationarityVerdict ==
    (call.name = "describe_stationarity" /\ out.status = "ok")
        => /\ out.value.stationarity
                 <=> out.value.p_value < out.value.critical_value_5pct
           /\ {"critical_value_1pct", "critical_value_5pct", "critical_value_10pct"}
                 \subseteq DOMAIN out.value

\* describe_stationarity has returned a verdict on a p-value below 0.05
C8_Witness ==
    /\ call.name = "describe_stationarity" /\ out.status = "ok"
    /\ out.value.p_value < 50 /\ out.value.p_value > 0

\* C10 as stated: describe_acf, on a series that is not empty and with
\* nlags >= 0, returns lag 0 with coefficient 1.0, and on a constant series
\* 0.0 at every other lag
C10_AcfLagZeroIsOne ==
    (call.name = "describe_acf" /\ call.nlags >= 0 /\ Len(ts.values) >= 1)
        => /\ out.status = "ok"
           /\ Len(out.value.lags) >= 1
           /\ IsOne(out.value.lags[1])
           /\ IsConstant(ts.values)
                 => \A i \in 2..Len(out.value.lags) : IsZero(out.value.lags[i])

RECURSIVE Binomial(_, _)
Binomial(k, j) ==
    IF j = 0 \/ j = k THEN 1 ELSE Binomial(k - 1, j - 1) + Binomial(k - 1, j)

\* the k-th order difference of the values x: position i holds the alternating
\* binomial sum of x[i], ..., x[i + k]
KthDifference(x, k) ==
    [i \in 1..(Len(x) - k) |->
        Sum([j \in 1..(k + 1) |->
                (IF (k - j + 1) % 2 = 0 THEN 1 ELSE -1)
                    * Binomial(k, j - 1) * x[i + j - 1]])]

\* the operations that work on the held series as it is
HeldSeriesOps ==
    {Call("plot_time_series", FALSE, 0, 0, None),
     Call("make_box_plot", FALSE, 0, 0, None),
     Call("plot_distribution_histogram", FALSE, 0, 0, None)}
        \cup {Call("plot_acf", FALSE, 0, n, None) : n \in NLags}

HistogramCalled(differenced) ==
    call.name = "plot_distribution_histogram" /\ call.differenced = differenced

\* C12: plot_distribution_histogram(differenced=True) replaces the held series
\* by its first difference and plot_distribution_histogram(differenced=False)
\* leaves it as it is; after k calls with differenced=True on a series of n
\* values (n >= k) the held series has n - k values and is the k-th order
\* difference of the series supplied at construction, on the last n - k
\* timestamps, and the operations called later work on that series
C12_HistogramOverwritesHeldSeries ==
    /\ [](LET n == Len(ts0.values)
              k == ndiff
          IN  /\ n >= k => Len(ts.values) = n - k
              /\ ts.values = KthDifference(ts0.values, k)
              /\ ts.index = [i \in 1..(n - k) |-> ts0.index[i + k]]
              /\ call \in HeldSeriesOps => derived = ts
              /\ call.name = "describe_distribution"
                    => out.value = describe_distribution(
                          [values |-> KthDifference(ts0.values, k)]))
    /\ [][/\ HistogramCalled(TRUE)'
             => (ndiff' = ndiff + 1 /\ ts'.values = KthDifference(ts.values, 1))
          /\ HistogramCalled(FALSE)' => (ndiff' = ndiff /\ ts' = ts)]_vars

\* after two calls of the histogram with differenced=True, describe_distribution
\* works on a held series that still has three or more values
C12_Witness ==
    /\ ndiff = 2 /\ Len(ts.values) >= 3 /\ ~IsConstant(ts0.values)
    /\ call.name = "describe_distribution" /\ out.status = "ok"

\* C15: no result of describe_stationarity has the verdict stationarity = True:
\* the p-value, which lies in [0, 1], is never below the 5% critical value,
\* which is negative
C15_VerdictNeverTrue ==
    (call.name = "describe_stationarity" /\ out.status = "ok")
        => /\ out.value.stationarity = FALSE
           /\ out.value.p_value >= 0 /\ out.value.p_value <= 1000
           /\ out.value.critical_value_5pct < 0

\* the test rejects the unit root at every level (p-value 0, statistic below
\* the 1% critical value) and the verdict is still False
C15_Witness ==
    /\ call.name = "describe_stationarity" /\ out.status = "ok"
    /\ out.value.p_value = 0
    /\ out.value.adf_statistic < out.value.critical_value_1pct
    /\ out.value.stationarity = FALSE

-----------------------------------------------------------------------------
(* Properties of the report's panel, checked under SpecReport *)

\* an ascending index of three or more timestamps, all one step apart
HasCadence(idx, step) ==
    Len(idx) >= 3 /\ \A i \in 1..(Len(idx) - 1) : idx[i + 1] - idx[i] = step

\* the calls the panel has made agree with the lags and the resample target
MadeCallsUse(lag1, lag2, resample_to) ==
    LET expected == PanelCalls([lag1 |-> lag1, lag2 |-> lag2,
                                resample_to |-> resample_to])
    IN  /\ Len(out.stages) >= 1
        /\ \A i \in 1..Len(out.stages) : out.stages[i] = expected[i]

\* C5 as stated, for the cadences of the model: the panel of a report built on
\* an hourly series uses lags 24 and 168 and resamples to days, and the panel
\* of a report built on a daily series uses lags 30 and 365 and resamples to
\* weeks
C5_CadencePolicyApplied ==
    (call.name = "_self_correlation_panel" /\ IsDatetime(ts))
        => /\ HasCadence(ts.index, 1) => MadeCallsUse(24, 168, "d")
           /\ HasCadence(ts.index, 24) => MadeCallsUse(30, 365, "w")

ContentNames(contents) == [i \in 1..Len(contents) |-> contents[i].name]

AllContents == <<"tsi_html", "stationarity_html", "ts_dist", "windowed", "self_corr">>

\* C13 as stated: in generate, the rolling-window panel and the
\* self-correlation panel are computed from the series the engine was built
\* on, which is the series the time-index table of the same report describes
C13_PanelsDescribeConstructionSeries ==
    (call.name = "generate" /\ out.status = "ok")
        => \A i \in 1..Len(out.value.contents) :
              out.value.contents[i].name \in {"windowed", "self_corr"}
                  => /\ out.value.contents[i].series = ts0
                     /\ out.value.contents[i].series = out.value.contents[1].series

\* the cadence recorded at construction is none of the three of the table
UnknownCadence ==
    /\ report.built
    /\ report.index_description.inferred_frequency
           \notin {Freq(1, "M"), Freq(1, "h"), Freq(1, "d")}

\* this step writes the document
Writes ==
    \/ report'.built /\ report'.written /\ ~(report.built /\ report.written)
    \/ /\ call'.name = "generate" /\ out'.status = "ok"
       /\ out'.value.kind = "generated"

\* C14: generate writes the document only in a step that follows the
\* computation of both tables and of the three panels, in this order; with a
\* cadence that is none of the three of the table, the self-correlation panel
\* raises before any of its engine calls, generate ends with that error, and
\* no document is written
C14_NoPartialReport ==
    /\ [][Writes => (InGenerate(5) /\ ContentNames(out.value.contents) = AllContents
                     /\ out'.value.contents = out.value.contents)]_vars
    /\ [][(InGenerate(4) /\ UnknownCadence)
             => (out' = Raised(UnboundLocal, <<>>) /\ report' = report)]_vars
    /\ []((call.name = "generate" /\ UnknownCadence)
             => (~report.written /\ ~InGenerate(5)
                 /\ (out.status = "ok" => out.value.kind = "generate")))

\* generate, for a report built on an index of no single cadence, has raised
\* in the self-correlation panel and has written nothing
C14_Witness ==
    /\ call.name = "generate" /\ out = Raised(UnboundLocal, <<>>)
    /\ report.built /\ report.index_description.inferred_frequency = NoFreq
    /\ ~report.written

-----------------------------------------------------------------------------
(* Properties of the model contracts, checked under SpecContract *)

PrimaryOp == IF model.kind = "detector" THEN "detect" ELSE "predict"

\* what fit and the prediction operation are to be called with, by contract
ExpectedFit ==
    IF model.kind = "detector" THEN MethodCall("fit", model.args.X, None, 0)
    ELSE MethodCall("fit", model.args.X, model.args.y, 0)

ExpectedPrimary ==
    IF model.kind = "forecaster"
    THEN MethodCall("predict", model.args.X, None, model.args.steps)
    ELSE MethodCall(PrimaryOp, model.args.X, None, 0)

Logged(i, c) ==
    /\ model.log[i].self = model.self
    /\ \A k \in DOMAIN c : model.log[i][k] = c[k]

\* C11: the composite operation of each contract calls fit once and then the
\* prediction operation once, on the same instance and with the caller's
\* arguments, and returns what the prediction operation returned; when fit
\* raises, the prediction operation is not called
C11_FitThenPredict ==
    model.kind \in ContractKinds
        => /\ Len(model.log) <= 2
           /\ Len(model.log) >= 1 => Logged(1, ExpectedFit)
           /\ Len(model.log) = 2
                 => (Logged(2, ExpectedPrimary) /\ model.log[1].ret = "self")
           /\ model.pc = "returned"
                 => (Len(model.log) = 2 /\ model.result = model.log[2].ret)
           /\ (model.pc = "raised" /\ model.log[1].ret = "raise")
                 => Len(model.log) = 1

\* a forecaster's fit_predict has returned its forecast, for exogenous data
\* that differ from the target series
C11_Witness ==
    /\ model.kind = "forecaster" /\ model.pc = "returned"
    /\ model.args.X # model.args.y /\ model.result = "r2"

====
